---------------------------- MODULE Spec2Model ----------------------------
(***************************************************************************)
(* i915 hotplug (HPD) handling: drivers/gpu/drm/i915/intel_hotplug.c of    *)
(* linux-4.18.0-80.el8.                                                    *)
(*                                                                         *)
(* Bitmasks (pin_mask, long_mask, event_bits, long_port_mask,              *)
(* short_port_mask, connector->polled) are modelled as sets of the names   *)
(* of their bits; `x |= BIT(i)` is union, `x &= ~BIT(i)` is set minus.     *)
(* jiffies is a natural number that does not wrap within the horizon of    *)
(* the model.  A critical section of irq_lock is two steps: the            *)
(* acquisition together with the body, and the release together with the   *)
(* code that follows it.  The locals of a call (its arguments, what it     *)
(* read, what it called) live from its first step to its last.             *)
(***************************************************************************)
EXTENDS Integers, Sequences, FiniteSets, TLC

(***************************************************************************)
(* Bounds of the model.                                                    *)
(***************************************************************************)
\* timer ticks per second of the modelled kernel build
HZ == 1
\* how far jiffies may tick past a multiple of the re-enable delay in the
\* driver specifications
Slack == 1
\* the same in the storm-detector specification
StormSlack == 2
\* largest storm threshold drawn in the storm-detector specification
MaxThreshold == 21
\* most interrupts raised in one behaviour of the storm-detector specification
MaxPulses == 3
\* most interrupts raised in one behaviour of the driver specifications
MaxIrqs == 3
\* event_hits counts the interrupts merged into one event bit up to here
MaxHits == 2
\* most administrative calls recorded in the pin-control specification
MaxCalls == 3
\* interrupts and administrative calls in the teardown specification
MaxCancelIrqs == 1
MaxCancelCalls == 2

(***************************************************************************)
(* enum hpd_pin, enum port (the names of the values).                      *)
(***************************************************************************)
HPD_NONE == "HPD_NONE"
PORT_NONE == "PORT_NONE"

\* for_each_hpd_pin: HPD_NONE + 1 .. HPD_NUM_PINS - 1, in order
HpdPinSeq ==
    << "HPD_CRT", "HPD_SDVO_B", "HPD_SDVO_C", "HPD_PORT_A", "HPD_PORT_B",
       "HPD_PORT_C", "HPD_PORT_D", "HPD_PORT_E", "HPD_PORT_F" >>

HpdPins == { HpdPinSeq[i] : i \in 1..Len(HpdPinSeq) }

\* 0 .. I915_MAX_PORTS - 1
Ports == { "PORT_A", "PORT_B", "PORT_C", "PORT_D", "PORT_E", "PORT_F" }

HPD_ENABLED == "HPD_ENABLED"
HPD_DISABLED == "HPD_DISABLED"
HPD_MARK_DISABLED == "HPD_MARK_DISABLED"

PinStates == { HPD_ENABLED, HPD_DISABLED, HPD_MARK_DISABLED }

\* connector->polled values
POLL_NONE == {}
DRM_CONNECTOR_POLL_HPD == { "HPD" }
POLL_CONNECT_DISCONNECT == { "CONNECT", "DISCONNECT" }

HPD_STORM_DETECT_PERIOD == 1000
HPD_STORM_REENABLE_DELAY == 2 * 60 * 1000

msecs_to_jiffies(m) == (m * HZ + 999) \div 1000

VARIABLES
    \* platform, fixed by Init
    is_cnl_with_port_f,     \* IS_CNL_WITH_PORT_F(dev_priv)
    has_hotplug,            \* I915_HAS_HOTPLUG: display.hpd_irq_setup is set
    display_irqs_enabled,   \* dev_priv->display_irqs_enabled
    irq_port,               \* ports p with hotplug.irq_port[p] registered
    tick_slack,             \* how far jiffies ticks past the re-enable delay
    \* dev_priv->hotplug
    hpd_storm_threshold,
    hpd_short_storm_enabled,
    stats,                  \* stats[pin] = [last_jiffies, count, state]
    event_bits,
    long_port_mask,
    short_port_mask,
    poll_enabled,
    \* connectors
    polled,                 \* connector->polled
    \* time
    jiffies,
    \* locks: the holder, or "free"
    irq_lock,
    mode_config_mutex,
    \* work items
    pending,                \* pending[w]: w is queued
    canceling,              \* canceling[w]: cancel_work_sync(w) in progress
    reenable_timer,         \* expiry of reenable_work's timer, -1 if unarmed
    pc,                     \* pc[t]: position of context t
    \* arguments, locals and return values of the running calls
    irq,                    \* intel_hpd_irq_handler
    dig,                    \* i915_digport_work_func
    hp,                     \* i915_hotplug_work_func
    re,                     \* intel_hpd_irq_storm_reenable_work
    adm,                    \* the administrative caller
    \* observers
    logging,                \* whether pulse_log and call_log are kept
    irq_budget,             \* interrupts the hardware has yet to raise
    adm_budget,             \* calls the administrative caller has yet to make
    call_disabled,          \* pins intel_hpd_disable took from HPD_ENABLED to
                            \* HPD_DISABLED, until a call enables them
    event_hits,             \* interrupts merged into each event bit
    pulse_log,              \* pulses handed to the storm detector
    call_log,               \* administrative calls made
    map_port,               \* last intel_hpd_pin_default query
    map_pin                 \* last intel_hpd_pin_to_port query

platform_vars == << is_cnl_with_port_f, has_hotplug, display_irqs_enabled,
                    irq_port, hpd_storm_threshold, hpd_short_storm_enabled,
                    tick_slack >>
hotplug_vars == << stats, event_bits, long_port_mask, short_port_mask,
                   poll_enabled, polled >>
sched_vars == << irq_lock, mode_config_mutex, pending, canceling,
                 reenable_timer, pc >>
local_vars == << irq, dig, hp, re, adm >>
log_vars == << logging, irq_budget, adm_budget, call_disabled, pulse_log,
              call_log >>
map_vars == << map_port, map_pin >>

vars == << platform_vars, hotplug_vars, jiffies, sched_vars, local_vars,
           event_hits, log_vars, map_vars >>

(***************************************************************************)
(* Pin/port mapping.                                                       *)
(***************************************************************************)
\* a mapping without the Cannonlake port F pairing
intel_hpd_pin_to_port_plain(cnl_f, pin) ==
    CASE pin = "HPD_PORT_A" -> "PORT_A"
      [] pin = "HPD_PORT_B" -> "PORT_B"
      [] pin = "HPD_PORT_C" -> "PORT_C"
      [] pin = "HPD_PORT_D" -> "PORT_D"
      [] pin = "HPD_PORT_E" -> "PORT_E"
      [] pin = "HPD_PORT_F" -> "PORT_F"
      [] OTHER -> PORT_NONE

intel_hpd_pin_to_port(cnl_f, pin) ==
    CASE pin = "HPD_PORT_A" -> "PORT_A"
      [] pin = "HPD_PORT_B" -> "PORT_B"
      [] pin = "HPD_PORT_C" -> "PORT_C"
      [] pin = "HPD_PORT_D" -> "PORT_D"
      [] pin = "HPD_PORT_E" -> IF cnl_f THEN "PORT_F" ELSE "PORT_E"
      [] pin = "HPD_PORT_F" -> "PORT_F"
      [] OTHER -> PORT_NONE

intel_hpd_pin_default(cnl_f, port) ==
    CASE port = "PORT_A" -> "HPD_PORT_A"
      [] port = "PORT_B" -> "HPD_PORT_B"
      [] port = "PORT_C" -> "HPD_PORT_C"
      [] port = "PORT_D" -> "HPD_PORT_D"
      [] port = "PORT_E" -> "HPD_PORT_E"
      [] port = "PORT_F" -> IF cnl_f THEN "HPD_PORT_E" ELSE "HPD_PORT_F"
      [] OTHER -> HPD_NONE

(***************************************************************************)
(* The connectors of the modelled device, in connector-list order.  Each   *)
(* is an intel_connector: encoder->hpd_pin (HPD_NONE with has_encoder      *)
(* FALSE for a connector whose encoder pointer is NULL), mst_port, and     *)
(* intel_connector->polled, the connector's polling preference.            *)
(***************************************************************************)
ConnectorSeq ==
    << [ name |-> "VGA", has_encoder |-> TRUE, hpd_pin |-> "HPD_CRT",
         mst_port |-> FALSE, polled |-> POLL_NONE ],
       [ name |-> "HDMI_B", has_encoder |-> TRUE, hpd_pin |-> "HPD_PORT_B",
         mst_port |-> FALSE, polled |-> DRM_CONNECTOR_POLL_HPD ],
       [ name |-> "DP_B", has_encoder |-> TRUE, hpd_pin |-> "HPD_PORT_B",
         mst_port |-> FALSE, polled |-> DRM_CONNECTOR_POLL_HPD ],
       [ name |-> "DP_MST", has_encoder |-> FALSE, hpd_pin |-> HPD_NONE,
         mst_port |-> TRUE, polled |-> POLL_NONE ] >>

Connectors == { ConnectorSeq[i].name : i \in 1..Len(ConnectorSeq) }

Conn(name) == CHOOSE c \in { ConnectorSeq[i] : i \in 1..Len(ConnectorSeq) } :
                  c.name = name

\* ports with a registered digital port (hotplug.irq_port[port] != NULL)
DigitalPorts == { "PORT_B" }

\* the pins the modelled hardware raises interrupts on
IrqPins == { "HPD_CRT", "HPD_PORT_B" }

(***************************************************************************)
(* Storm detector.                                                         *)
(***************************************************************************)
\* a window that never closes
time_in_range_open(a, b, c) == a >= b

\* a window that excludes its last jiffy
time_in_range_half_open(a, b, c) == a >= b /\ a < c

\* time_in_range of linux/jiffies.h: both ends are inside
time_in_range(a, b, c) == a >= b /\ a <= c

\* a short pulse that weighs as much as a long one
storm_increment_flat(long_hpd) == 10

\* const int increment
storm_increment(long_hpd) == IF long_hpd THEN 10 ELSE 1

\* a detector that counts short pulses whatever the flag says
storm_gated_by_threshold(threshold, long_hpd, short_enabled) == threshold = 0

\* the early return: detection is off for this pulse
storm_gated(threshold, long_hpd, short_enabled) ==
    threshold = 0 \/ (~long_hpd /\ ~short_enabled)

\* a detector that reports a storm when the threshold is reached
storm_reached(count, threshold) == count >= threshold

\* the test of the count against the threshold
storm_exceeded(count, threshold) == count > threshold

\* the stats of the pin after the call, and the value returned
intel_hpd_irq_storm_detect(st, long_hpd, now, threshold, short_enabled) ==
    LET start == st.last_jiffies
        end == start + msecs_to_jiffies(HPD_STORM_DETECT_PERIOD)
        increment == storm_increment(long_hpd)
    IN  IF storm_gated(threshold, long_hpd, short_enabled)
        THEN [ stats |-> st, storm |-> FALSE ]
        ELSE LET w == IF ~time_in_range(now, start, end)
                      THEN [ st EXCEPT !.last_jiffies = now, !.count = 0 ]
                      ELSE st
                 c == [ w EXCEPT !.count = w.count + increment ]
             IN  IF storm_exceeded(c.count, threshold)
                 THEN [ stats |-> [ c EXCEPT !.state = HPD_MARK_DISABLED ],
                        storm |-> TRUE ]
                 ELSE [ stats |-> c, storm |-> FALSE ]

(***************************************************************************)
(* Work items: schedule_work / queue_work set the pending bit unless the   *)
(* item is being cancelled; an item never runs concurrently with itself.   *)
(***************************************************************************)
Works == { "dig_port_work", "hotplug_work", "poll_init_work", "reenable_work" }

Contexts == { "irq", "dig", "hp", "re", "pi", "adm" }

\* pending after queueing the items of ws
queue_work(pend, ws) ==
    [ w \in Works |-> pend[w] \/ (w \in ws /\ ~canceling[w]) ]

Bump(n) == IF n < MaxHits THEN n + 1 ELSE MaxHits


ZeroPins == [ i \in HpdPins |-> 0 ]

IrqIdle == [ storm |-> {}, setup |-> 0, queue_dig |-> FALSE,
             queue_hp |-> FALSE ]
DigIdle == [ long_port_mask |-> {}, short_port_mask |-> {}, pulses |-> {},
             none |-> {}, old_bits |-> {} ]
HpIdle == [ hpd_event_bits |-> {}, hits |-> ZeroPins, switched |-> FALSE,
            detect_calls |-> [ n \in Connectors |-> 0 ] ]
ReIdle == [ enabled |-> {}, setup |-> 0 ]
\* irqs: what irq_budget was when the call began, for the properties
AdmIdle == [ op |-> "none", pin |-> HPD_NONE, ret |-> FALSE, i |-> 0,
             setup |-> 0, irqs |-> 0 ]

(***************************************************************************)
(* intel_hpd_irq_handler                                                   *)
(***************************************************************************)
is_dig_port(pin) ==
    LET port == intel_hpd_pin_to_port(is_cnl_with_port_f, pin)
    IN  port # PORT_NONE /\ port \in irq_port

\* long_hpd of the loop body for pin i
irq_long_hpd(i, long_mask) == IF is_dig_port(i) THEN i \in long_mask ELSE TRUE

\* the pins whose iteration reaches the storm detector
irq_processed(pin_mask) ==
    { i \in HpdPins : i \in pin_mask /\ stats[i].state = HPD_ENABLED }

irq_detect(i, long_mask) ==
    intel_hpd_irq_storm_detect(stats[i], irq_long_hpd(i, long_mask), jiffies,
                               hpd_storm_threshold, hpd_short_storm_enabled)

\* the pulses of one call handed to the storm detector, in pin order
RECURSIVE log_pulses(_, _, _)
log_pulses(k, proc, long_mask) ==
    IF k > Len(HpdPinSeq) THEN << >>
    ELSE LET i == HpdPinSeq[k]
         IN  (IF i \in proc
              THEN << [ pin |-> i, t |-> jiffies,
                        long |-> irq_long_hpd(i, long_mask),
                        start |-> stats[i].last_jiffies,
                        count |-> stats[i].count,
                        start_after |->
                            irq_detect(i, long_mask).stats.last_jiffies,
                        count_after |-> irq_detect(i, long_mask).stats.count,
                        state_after |-> irq_detect(i, long_mask).stats.state,
                        storm |-> irq_detect(i, long_mask).storm ] >>
              ELSE << >>) \o log_pulses(k + 1, proc, long_mask)

\* a hook that is called whether or not display interrupts are enabled
irq_setup_called_unchecked(storms) == storms # {}

\* whether the hook is called after the loop, given the pins that stormed
irq_setup_called(storms) == storms # {} /\ display_irqs_enabled

\* a storm that wipes the whole mask
irq_event_bits_wiped(bits, hits, storms) ==
    IF storms # {} THEN {} ELSE bits \cup hits

\* event_bits after the loop: hits are the enabled non-digital pins that fired
irq_event_bits(bits, hits, storms) == (bits \cup hits) \ storms

\* entered with pin_mask != 0: spin_lock, the loop over the pins, the
\* interrupt-mask hook
IrqHandler(pin_mask, long_mask) ==
    /\ pc["irq"] = "idle"
    /\ has_hotplug
    /\ pin_mask # {}
    /\ irq_budget > 0
    /\ irq_budget' = irq_budget - 1
    /\ irq_lock = "free"
    /\ irq_lock' = "irq"
    /\ LET port(i) == intel_hpd_pin_to_port(is_cnl_with_port_f, i)
           proc == irq_processed(pin_mask)
           storms == { i \in proc : irq_detect(i, long_mask).storm }
           hits == { i \in proc : ~is_dig_port(i) }
       IN  /\ long_port_mask' = long_port_mask \cup
                  { port(i) : i \in { j \in pin_mask :
                                        is_dig_port(j) /\ j \in long_mask } }
           /\ short_port_mask' = short_port_mask \cup
                  { port(i) : i \in { j \in pin_mask :
                                        is_dig_port(j) /\ j \notin long_mask } }
           /\ stats' = [ i \in HpdPins |->
                           IF i \in proc THEN irq_detect(i, long_mask).stats
                                         ELSE stats[i] ]
           /\ event_bits' = irq_event_bits(event_bits, hits, storms)
           /\ event_hits' = [ i \in HpdPins |->
                                IF i \in storms THEN 0
                                ELSE IF i \in hits THEN Bump(event_hits[i])
                                ELSE event_hits[i] ]
           /\ irq' = [ storm |-> storms,
                       setup |-> IF irq_setup_called(storms) THEN 1 ELSE 0,
                       queue_dig |-> \E i \in pin_mask : is_dig_port(i),
                       queue_hp |-> hits # {} \/ storms # {} ]
           /\ pulse_log' = IF logging
                           THEN pulse_log \o log_pulses(1, proc, long_mask)
                           ELSE pulse_log
    /\ pc' = [ pc EXCEPT !["irq"] = "unlock" ]
    /\ UNCHANGED << platform_vars, poll_enabled, polled, jiffies,
                    mode_config_mutex, pending, canceling, reenable_timer,
                    dig, hp, re, adm, logging, adm_budget, call_disabled,
                    call_log, map_vars >>

\* spin_unlock, queue_work(dig_port_work), schedule_work(hotplug_work)
IrqExit ==
    /\ pc["irq"] = "unlock"
    /\ irq_lock' = "free"
    /\ pending' = queue_work(pending,
           (IF irq.queue_dig THEN { "dig_port_work" } ELSE {}) \cup
           (IF irq.queue_hp THEN { "hotplug_work" } ELSE {}))
    /\ irq' = IrqIdle
    /\ pc' = [ pc EXCEPT !["irq"] = "idle" ]
    /\ UNCHANGED << platform_vars, hotplug_vars, jiffies, mode_config_mutex,
                    canceling, reenable_timer, dig, hp, re, adm, event_hits,
                    log_vars, map_vars >>

(***************************************************************************)
(* i915_digport_work_func                                                  *)
(***************************************************************************)
\* intel_dig_port->base.hpd_pin of the digital port registered for port
dig_port_pin(port) == intel_hpd_pin_default(is_cnl_with_port_f, port)

\* the work starts: spin_lock_irq, read and zero both port masks
DigDrain ==
    /\ pending["dig_port_work"]
    /\ pc["dig"] = "idle"
    /\ irq_lock = "free"
    /\ irq_lock' = "dig"
    /\ pending' = [ pending EXCEPT !["dig_port_work"] = FALSE ]
    /\ dig' = [ DigIdle EXCEPT !.long_port_mask = long_port_mask,
                               !.short_port_mask = short_port_mask ]
    /\ long_port_mask' = {}
    /\ short_port_mask' = {}
    /\ pc' = [ pc EXCEPT !["dig"] = "drained" ]
    /\ UNCHANGED << platform_vars, stats, event_bits, poll_enabled, polled,
                    jiffies, mode_config_mutex, canceling, reenable_timer,
                    irq, hp, re, adm, event_hits, log_vars, map_vars >>

\* a loop that makes one call for every bit that is set
dig_pulses_each(long_mask, short_mask) ==
    { << port, TRUE >> : port \in { q \in Ports : q \in irq_port /\
                                                  q \in long_mask } }
    \cup
    { << port, FALSE >> : port \in { q \in Ports : q \in irq_port /\
                                                   q \in short_mask } }

\* the hpd_pulse calls of the loop over the ports: << port, long_hpd >>
dig_pulses(long_mask, short_mask) ==
    { << port, port \in long_mask >> :
          port \in { q \in Ports : q \in irq_port /\
                                   (q \in long_mask \/ q \in short_mask) } }

\* a processor that drops the pulses its ports did not handle
dig_old_bits_dropped(calls, none) == {}

\* old_bits after the loop, none being the ports whose call returned IRQ_NONE
dig_old_bits(calls, none) ==
    { dig_port_pin(c[1]) : c \in { d \in calls : d[1] \in none } }

\* spin_unlock_irq, then the loop over the ports
DigPulse(none) ==
    /\ pc["dig"] = "drained"
    /\ irq_lock' = "free"
    /\ LET calls == dig_pulses(dig.long_port_mask, dig.short_port_mask)
       IN  /\ none \subseteq { c[1] : c \in calls }
           /\ dig' = [ dig EXCEPT !.pulses = calls, !.none = none,
                                  !.old_bits = dig_old_bits(calls, none) ]
    /\ pc' = [ pc EXCEPT !["dig"] = "pulsed" ]
    /\ UNCHANGED << platform_vars, hotplug_vars, jiffies, mode_config_mutex,
                    pending, canceling, reenable_timer, irq, hp, re, adm,
                    event_hits, log_vars, map_vars >>

\* old_bits == 0: the work ends
DigDone ==
    /\ pc["dig"] = "pulsed"
    /\ dig.old_bits = {}
    /\ dig' = DigIdle
    /\ pc' = [ pc EXCEPT !["dig"] = "idle" ]
    /\ UNCHANGED << platform_vars, hotplug_vars, jiffies, irq_lock,
                    mode_config_mutex, pending, canceling, reenable_timer,
                    irq, hp, re, adm, event_hits, log_vars, map_vars >>

\* fall back to old school hpd: spin_lock_irq, event_bits |= old_bits
DigMerge ==
    /\ pc["dig"] = "pulsed"
    /\ dig.old_bits # {}
    /\ irq_lock = "free"
    /\ irq_lock' = "dig"
    /\ event_bits' = event_bits \cup dig.old_bits
    /\ event_hits' = [ i \in HpdPins |->
                         IF i \in dig.old_bits THEN Bump(event_hits[i])
                                               ELSE event_hits[i] ]
    /\ pc' = [ pc EXCEPT !["dig"] = "merged" ]
    /\ UNCHANGED << platform_vars, stats, long_port_mask, short_port_mask,
                    poll_enabled, polled, jiffies, mode_config_mutex, pending,
                    canceling, reenable_timer, local_vars, log_vars,
                    map_vars >>

\* spin_unlock_irq, schedule_work(hotplug_work)
DigExit ==
    /\ pc["dig"] = "merged"
    /\ irq_lock' = "free"
    /\ pending' = queue_work(pending, { "hotplug_work" })
    /\ dig' = DigIdle
    /\ pc' = [ pc EXCEPT !["dig"] = "idle" ]
    /\ UNCHANGED << platform_vars, hotplug_vars, jiffies, mode_config_mutex,
                    canceling, reenable_timer, irq, hp, re, adm, event_hits,
                    log_vars, map_vars >>

(***************************************************************************)
(* intel_hpd_irq_storm_switch_to_polling                                   *)
(***************************************************************************)
\* whether the loop skips connector c
storm_switch_skips(c, st, pl) ==
    \/ pl[c.name] # DRM_CONNECTOR_POLL_HPD
    \/ ~c.has_encoder
    \/ c.hpd_pin = HPD_NONE
    \/ st[c.hpd_pin].state # HPD_MARK_DISABLED

\* the loop over the connectors from the k-th on
RECURSIVE storm_switch_loop(_, _, _, _)
storm_switch_loop(k, st, pl, hpd_disabled) ==
    IF k > Len(ConnectorSeq)
    THEN [ stats |-> st, polled |-> pl, hpd_disabled |-> hpd_disabled ]
    ELSE LET c == ConnectorSeq[k]
         IN  IF storm_switch_skips(c, st, pl)
             THEN storm_switch_loop(k + 1, st, pl, hpd_disabled)
             ELSE storm_switch_loop(k + 1,
                      [ st EXCEPT ![c.hpd_pin].state = HPD_DISABLED ],
                      [ pl EXCEPT ![c.name] = POLL_CONNECT_DISCONNECT ],
                      TRUE)

intel_hpd_irq_storm_switch_to_polling(st, pl) ==
    storm_switch_loop(1, st, pl, FALSE)

(***************************************************************************)
(* i915_hotplug_work_func                                                  *)
(***************************************************************************)
\* the work starts: mutex_lock(&dev->mode_config.mutex)
HpStartNoMutex ==
    /\ pending["hotplug_work"]
    /\ pc["hp"] = "idle"
    /\ pending' = [ pending EXCEPT !["hotplug_work"] = FALSE ]
    /\ pc' = [ pc EXCEPT !["hp"] = "mutex_held" ]
    /\ UNCHANGED << platform_vars, hotplug_vars, jiffies, irq_lock,
                    mode_config_mutex, canceling, reenable_timer, local_vars,
                    event_hits, log_vars, map_vars >>

\* the work starts: mutex_lock(&dev->mode_config.mutex)
HpStart ==
    /\ pending["hotplug_work"]
    /\ pc["hp"] = "idle"
    /\ mode_config_mutex = "free"
    /\ mode_config_mutex' = "hp"
    /\ pending' = [ pending EXCEPT !["hotplug_work"] = FALSE ]
    /\ pc' = [ pc EXCEPT !["hp"] = "mutex_held" ]
    /\ UNCHANGED << platform_vars, hotplug_vars, jiffies, irq_lock, canceling,
                    reenable_timer, local_vars, event_hits, log_vars,
                    map_vars >>

\* the expiry mod_delayed_work sets for the re-enable work
reenable_expiry(now) == now + msecs_to_jiffies(HPD_STORM_REENABLE_DELAY)

\* spin_lock_irq, drain event_bits, switch the stormed connectors to polling
\* and (re)arm the re-enable work
HpDrain ==
    /\ pc["hp"] = "mutex_held"
    /\ irq_lock = "free"
    /\ irq_lock' = "hp"
    /\ LET sw == intel_hpd_irq_storm_switch_to_polling(stats, polled)
           rearm == sw.hpd_disabled /\ ~canceling["reenable_work"]
       IN  /\ hp' = [ hp EXCEPT !.hpd_event_bits = event_bits,
                                !.hits = event_hits,
                                !.switched = sw.hpd_disabled ]
           /\ event_bits' = {}
           /\ event_hits' = ZeroPins
           /\ stats' = sw.stats
           /\ polled' = sw.polled
           /\ reenable_timer' = IF rearm THEN reenable_expiry(jiffies)
                                         ELSE reenable_timer
           /\ pending' = IF rearm
                         THEN [ pending EXCEPT !["reenable_work"] = FALSE ]
                         ELSE pending
    /\ pc' = [ pc EXCEPT !["hp"] = "drained" ]
    /\ UNCHANGED << platform_vars, long_port_mask, short_port_mask,
                    poll_enabled, jiffies, mode_config_mutex, canceling, irq,
                    dig, re, adm, log_vars, map_vars >>

\* a processor that detects once for every interrupt merged into a bit
hotplug_calls_per_hit(bits) ==
    [ n \in Connectors |->
        IF Conn(n).has_encoder /\ Conn(n).hpd_pin \in bits
        THEN hp.hits[Conn(n).hpd_pin] ELSE 0 ]

\* the encoder->hotplug calls of the loop over the connectors
hotplug_calls(bits) ==
    [ n \in Connectors |->
        IF Conn(n).has_encoder /\ Conn(n).hpd_pin \in bits THEN 1 ELSE 0 ]

\* spin_unlock_irq, then the loop over the connectors
HpDetect ==
    /\ pc["hp"] = "drained"
    /\ irq_lock' = "free"
    /\ hp' = [ hp EXCEPT !.detect_calls = hotplug_calls(hp.hpd_event_bits) ]
    /\ pc' = [ pc EXCEPT !["hp"] = "detected" ]
    /\ UNCHANGED << platform_vars, hotplug_vars, jiffies, mode_config_mutex,
                    pending, canceling, reenable_timer, irq, dig, re, adm,
                    event_hits, log_vars, map_vars >>

\* mutex_unlock(&dev->mode_config.mutex); the work ends
HpExit ==
    /\ pc["hp"] = "detected"
    /\ mode_config_mutex' = "free"
    /\ hp' = HpIdle
    /\ pc' = [ pc EXCEPT !["hp"] = "idle" ]
    /\ UNCHANGED << platform_vars, hotplug_vars, jiffies, irq_lock, pending,
                    canceling, reenable_timer, irq, dig, re, adm, event_hits,
                    log_vars, map_vars >>

(***************************************************************************)
(* intel_hpd_irq_storm_reenable_work (delayed work)                        *)
(***************************************************************************)
\* the timer of the delayed work expires: the work is queued
ReTimer ==
    /\ reenable_timer >= 0
    /\ jiffies >= reenable_timer
    /\ reenable_timer' = -1
    /\ pending' = queue_work(pending, { "reenable_work" })
    /\ UNCHANGED << platform_vars, hotplug_vars, jiffies, irq_lock,
                    mode_config_mutex, canceling, pc, local_vars, event_hits,
                    log_vars, map_vars >>

\* a pass that leaves the connectors polling
reenable_polled_kept(st, pl) == pl

\* connector->polled after the pass over the pins in st that are HPD_DISABLED
reenable_polled(st, pl) ==
    [ n \in Connectors |->
        LET c == Conn(n)
        IN  IF ~c.mst_port /\ c.hpd_pin \in HpdPins
               /\ st[c.hpd_pin].state = HPD_DISABLED
            THEN IF c.polled = POLL_NONE THEN DRM_CONNECTOR_POLL_HPD
                                         ELSE c.polled
            ELSE pl[n] ]

reenable_stats(st) ==
    [ i \in HpdPins |->
        IF st[i].state = HPD_DISABLED
        THEN [ st[i] EXCEPT !.state = HPD_ENABLED ] ELSE st[i] ]

\* whether the pass calls the interrupt-mask hook
reenable_setup_called == display_irqs_enabled /\ has_hotplug

\* the workqueue takes the work off the queue and calls it:
\* intel_runtime_pm_get
ReStart ==
    /\ pending["reenable_work"]
    /\ pc["re"] = "idle"
    /\ pending' = [ pending EXCEPT !["reenable_work"] = FALSE ]
    /\ pc' = [ pc EXCEPT !["re"] = "started" ]
    /\ UNCHANGED << platform_vars, hotplug_vars, jiffies, irq_lock,
                    mode_config_mutex, canceling, reenable_timer, local_vars,
                    event_hits, log_vars, map_vars >>

\* spin_lock_irq, the loop over the pins, the hook
ReBody ==
    /\ pc["re"] = "started"
    /\ irq_lock = "free"
    /\ irq_lock' = "re"
    /\ stats' = reenable_stats(stats)
    /\ polled' = reenable_polled(stats, polled)
    /\ re' = [ enabled |-> { i \in HpdPins : stats[i].state = HPD_DISABLED },
               setup |-> IF reenable_setup_called THEN 1 ELSE 0 ]
    /\ pc' = [ pc EXCEPT !["re"] = "unlock" ]
    /\ UNCHANGED << platform_vars, event_bits, long_port_mask, short_port_mask,
                    poll_enabled, jiffies, mode_config_mutex, pending,
                    canceling,
                    reenable_timer, irq, dig, hp, adm, event_hits, log_vars,
                    map_vars >>

\* spin_unlock_irq; the work ends
ReExit ==
    /\ pc["re"] = "unlock"
    /\ irq_lock' = "free"
    /\ re' = ReIdle
    /\ pc' = [ pc EXCEPT !["re"] = "idle" ]
    /\ UNCHANGED << platform_vars, hotplug_vars, jiffies, mode_config_mutex,
                    pending, canceling, reenable_timer, irq, dig, hp, adm,
                    event_hits, log_vars, map_vars >>

(***************************************************************************)
(* i915_hpd_poll_init_work                                                 *)
(***************************************************************************)
poll_init_polled(enabled) ==
    [ n \in Connectors |->
        LET c == Conn(n)
        IN  IF c.mst_port THEN c.polled
            ELSE IF c.polled = POLL_NONE /\ has_hotplug /\ c.hpd_pin # HPD_NONE
                 THEN IF enabled THEN POLL_CONNECT_DISCONNECT
                                 ELSE DRM_CONNECTOR_POLL_HPD
                 ELSE c.polled ]

\* the work starts: mutex_lock, read poll_enabled, the loop over the connectors
PiBody ==
    /\ pending["poll_init_work"]
    /\ pc["pi"] = "idle"
    /\ mode_config_mutex = "free"
    /\ mode_config_mutex' = "pi"
    /\ pending' = [ pending EXCEPT !["poll_init_work"] = FALSE ]
    /\ polled' = poll_init_polled(poll_enabled)
    /\ pc' = [ pc EXCEPT !["pi"] = "unlock" ]
    /\ UNCHANGED << platform_vars, stats, event_bits, long_port_mask,
                    short_port_mask, poll_enabled, jiffies, irq_lock,
                    canceling, reenable_timer, local_vars, event_hits,
                    log_vars, map_vars >>

\* mutex_unlock; the work ends
PiExit ==
    /\ pc["pi"] = "unlock"
    /\ mode_config_mutex' = "free"
    /\ pc' = [ pc EXCEPT !["pi"] = "idle" ]
    /\ UNCHANGED << platform_vars, hotplug_vars, jiffies, irq_lock, pending,
                    canceling, reenable_timer, local_vars, event_hits,
                    log_vars, map_vars >>

(***************************************************************************)
(* The administrative calls, made one at a time by one caller.             *)
(***************************************************************************)



CallRoom == adm_budget > 0

log_call(op, pin, was, ret, now) ==
    IF logging
    THEN Append(call_log, [ op |-> op, pin |-> pin, was |-> was, ret |-> ret,
                            now |-> now ])
    ELSE call_log

\* stats after the pin loop of intel_hpd_init
intel_hpd_init_stats(st) ==
    [ i \in HpdPins |-> [ st[i] EXCEPT !.count = 0, !.state = HPD_ENABLED ] ]

\* intel_hpd_init up to the test of display_irqs_enabled: the pin loop (run
\* without irq_lock), WRITE_ONCE(poll_enabled, false), schedule_work
AdmInit ==
    /\ pc["adm"] = "idle"
    /\ CallRoom
    /\ adm_budget' = adm_budget - 1
    /\ stats' = intel_hpd_init_stats(stats)
    /\ call_disabled' = {}
    /\ poll_enabled' = FALSE
    /\ pending' = queue_work(pending, { "poll_init_work" })
    /\ IF display_irqs_enabled /\ has_hotplug
       THEN /\ adm' = [ AdmIdle EXCEPT !.op = "init" ]
            /\ pc' = [ pc EXCEPT !["adm"] = "init_setup" ]
       ELSE /\ adm' = AdmIdle
            /\ pc' = pc
    /\ UNCHANGED << platform_vars, event_bits, long_port_mask, short_port_mask,
                    polled, jiffies, irq_lock, mode_config_mutex, canceling,
                    reenable_timer, irq, dig, hp, re, event_hits, logging, irq_budget,
                    pulse_log, call_log,
                    map_vars >>

\* spin_lock_irq, the second test of display_irqs_enabled, the hook
AdmInitSetup ==
    /\ pc["adm"] = "init_setup"
    /\ irq_lock = "free"
    /\ irq_lock' = "adm"
    /\ adm' = [ adm EXCEPT !.setup = IF display_irqs_enabled THEN 1 ELSE 0 ]
    /\ pc' = [ pc EXCEPT !["adm"] = "unlock" ]
    /\ UNCHANGED << platform_vars, hotplug_vars, jiffies, mode_config_mutex,
                    pending, canceling, reenable_timer, irq, dig, hp, re,
                    event_hits, log_vars, map_vars >>

\* spin_unlock_irq and return, of intel_hpd_init, _disable and _enable
AdmUnlock ==
    /\ pc["adm"] = "unlock"
    /\ irq_lock' = "free"
    /\ adm' = AdmIdle
    /\ pc' = [ pc EXCEPT !["adm"] = "idle" ]
    /\ UNCHANGED << platform_vars, hotplug_vars, jiffies, mode_config_mutex,
                    pending, canceling, reenable_timer, irq, dig, hp, re,
                    event_hits, log_vars, map_vars >>

\* intel_hpd_poll_init
AdmPollInit ==
    /\ pc["adm"] = "idle"
    /\ CallRoom
    /\ adm_budget' = adm_budget - 1
    /\ poll_enabled' = TRUE
    /\ pending' = queue_work(pending, { "poll_init_work" })
    /\ UNCHANGED << platform_vars, stats, event_bits, long_port_mask,
                    short_port_mask, polled, jiffies, irq_lock,
                    mode_config_mutex, canceling, reenable_timer, pc,
                    local_vars, event_hits, logging, irq_budget, call_disabled,
                    pulse_log, call_log, map_vars >>

\* intel_hpd_cancel_work
CancelSeqHotplugFirst == << "hotplug_work", "dig_port_work", "poll_init_work",
                            "reenable_work" >>

\* intel_hpd_cancel_work: the order of its four cancel_*_sync calls
CancelSeq == << "dig_port_work", "hotplug_work", "poll_init_work",
                "reenable_work" >>

WorkContext(w) ==
    CASE w = "dig_port_work" -> "dig"
      [] w = "hotplug_work" -> "hp"
      [] w = "poll_init_work" -> "pi"
      [] w = "reenable_work" -> "re"

\* spin_lock_irq, zero the three masks
AdmCancelClear ==
    /\ pc["adm"] = "idle"
    /\ CallRoom
    /\ adm_budget' = adm_budget - 1
    /\ irq_lock = "free"
    /\ irq_lock' = "adm"
    /\ long_port_mask' = {}
    /\ short_port_mask' = {}
    /\ event_bits' = {}
    /\ event_hits' = ZeroPins
    /\ adm' = [ AdmIdle EXCEPT !.op = "cancel", !.irqs = irq_budget ]
    /\ pc' = [ pc EXCEPT !["adm"] = "cancel_unlock" ]
    /\ UNCHANGED << platform_vars, stats, poll_enabled, polled, jiffies,
                    mode_config_mutex, pending, canceling, reenable_timer,
                    irq, dig, hp, re, logging, irq_budget, call_disabled,
                    pulse_log, call_log, map_vars >>

AdmCancelUnlock ==
    /\ pc["adm"] = "cancel_unlock"
    /\ irq_lock' = "free"
    /\ adm' = [ adm EXCEPT !.i = 1 ]
    /\ pc' = [ pc EXCEPT !["adm"] = "cancel_grab" ]
    /\ UNCHANGED << platform_vars, hotplug_vars, jiffies, mode_config_mutex,
                    pending, canceling, reenable_timer, irq, dig, hp, re,
                    event_hits, log_vars, map_vars >>

\* cancel_work_sync, first half: take the item off the queue (and stop its
\* timer) and mark it as being cancelled
AdmCancelGrab ==
    /\ pc["adm"] = "cancel_grab"
    /\ LET w == CancelSeq[adm.i]
       IN  /\ pending' = [ pending EXCEPT ![w] = FALSE ]
           /\ canceling' = [ canceling EXCEPT ![w] = TRUE ]
           /\ reenable_timer' = IF w = "reenable_work" THEN -1
                                                       ELSE reenable_timer
    /\ pc' = [ pc EXCEPT !["adm"] = "cancel_wait" ]
    /\ UNCHANGED << platform_vars, hotplug_vars, jiffies, irq_lock,
                    mode_config_mutex, local_vars, event_hits, log_vars,
                    map_vars >>

\* cancel_work_sync, second half: wait until the item is not running
AdmCancelWait ==
    /\ pc["adm"] = "cancel_wait"
    /\ LET w == CancelSeq[adm.i]
       IN  /\ pc[WorkContext(w)] = "idle"
           /\ canceling' = [ canceling EXCEPT ![w] = FALSE ]
    /\ IF adm.i < Len(CancelSeq)
       THEN /\ adm' = [ adm EXCEPT !.i = adm.i + 1 ]
            /\ pc' = [ pc EXCEPT !["adm"] = "cancel_grab" ]
       ELSE /\ adm' = AdmIdle
            /\ pc' = [ pc EXCEPT !["adm"] = "idle" ]
    /\ UNCHANGED << platform_vars, hotplug_vars, jiffies, irq_lock,
                    mode_config_mutex, pending, reenable_timer, irq, dig, hp,
                    re, event_hits, log_vars, map_vars >>

\* intel_hpd_disable(HPD_NONE): return false
AdmDisableNone ==
    /\ pc["adm"] = "idle"
    /\ CallRoom
    /\ adm_budget' = adm_budget - 1
    /\ call_log' = log_call("disable", HPD_NONE, HPD_NONE, FALSE, HPD_NONE)
    /\ UNCHANGED << platform_vars, hotplug_vars, jiffies, sched_vars,
                    local_vars, event_hits, logging, irq_budget,
                    call_disabled, pulse_log, map_vars >>

\* a call that disables the pin whatever state it was in
intel_hpd_disable_state_forced(state) == HPD_DISABLED

\* the state intel_hpd_disable leaves a pin in, and what it returns
intel_hpd_disable_state(state) ==
    IF state = HPD_ENABLED THEN HPD_DISABLED ELSE state

\* a call that always reports a change
intel_hpd_disable_ret_always(state) == TRUE

intel_hpd_disable_ret(state) == (state = HPD_ENABLED)

\* intel_hpd_disable(pin): spin_lock_irq and the test of the state
AdmDisableBody(pin) ==
    /\ pc["adm"] = "idle"
    /\ CallRoom
    /\ adm_budget' = adm_budget - 1
    /\ pin # HPD_NONE
    /\ irq_lock = "free"
    /\ irq_lock' = "adm"
    /\ LET was == stats[pin].state
           now == intel_hpd_disable_state(was)
           ret == intel_hpd_disable_ret(was)
       IN  /\ stats' = [ stats EXCEPT ![pin].state = now ]
           /\ adm' = [ AdmIdle EXCEPT !.op = "disable", !.pin = pin,
                                      !.ret = ret ]
           /\ call_disabled' = IF ret THEN call_disabled \cup { pin }
                                     ELSE call_disabled
           /\ call_log' = log_call("disable", pin, was, ret, now)
    /\ pc' = [ pc EXCEPT !["adm"] = "unlock" ]
    /\ UNCHANGED << platform_vars, event_bits, long_port_mask, short_port_mask,
                    poll_enabled, polled, jiffies, mode_config_mutex, pending,
                    canceling, reenable_timer, irq, dig, hp, re, event_hits,
                    logging, irq_budget, pulse_log, map_vars >>

\* intel_hpd_enable(HPD_NONE): return
AdmEnableNone ==
    /\ pc["adm"] = "idle"
    /\ CallRoom
    /\ adm_budget' = adm_budget - 1
    /\ call_log' = log_call("enable", HPD_NONE, HPD_NONE, FALSE, HPD_NONE)
    /\ UNCHANGED << platform_vars, hotplug_vars, jiffies, sched_vars,
                    local_vars, event_hits, logging, irq_budget,
                    call_disabled, pulse_log, map_vars >>

\* a call that leaves a pin marked by the storm detector alone
intel_hpd_enable_state_unmarked(state) ==
    IF state = HPD_MARK_DISABLED THEN state ELSE HPD_ENABLED

\* the state intel_hpd_enable leaves a pin in
intel_hpd_enable_state(state) == HPD_ENABLED

\* intel_hpd_enable(pin): spin_lock_irq and the assignment
AdmEnableBody(pin) ==
    /\ pc["adm"] = "idle"
    /\ CallRoom
    /\ adm_budget' = adm_budget - 1
    /\ pin # HPD_NONE
    /\ irq_lock = "free"
    /\ irq_lock' = "adm"
    /\ LET was == stats[pin].state
           now == intel_hpd_enable_state(was)
       IN  /\ stats' = [ stats EXCEPT ![pin].state = now ]
           /\ adm' = [ AdmIdle EXCEPT !.op = "enable", !.pin = pin ]
           /\ call_disabled' = call_disabled \ { pin }
           /\ call_log' = log_call("enable", pin, was, FALSE, now)
    /\ pc' = [ pc EXCEPT !["adm"] = "unlock" ]
    /\ UNCHANGED << platform_vars, event_bits, long_port_mask, short_port_mask,
                    poll_enabled, polled, jiffies, mode_config_mutex, pending,
                    canceling, reenable_timer, irq, dig, hp, re, event_hits,
                    logging, irq_budget, pulse_log, map_vars >>

(***************************************************************************)
(* Time.  jiffies advances by one tick, within tick_slack ticks of a       *)
(* multiple of the re-enable delay, or runs on to the expiry of the armed  *)
(* timer.                                                                  *)
(***************************************************************************)
MaxJiffies == msecs_to_jiffies(HPD_STORM_REENABLE_DELAY) + tick_slack

Tick ==
    /\ jiffies < MaxJiffies
    /\ jiffies % msecs_to_jiffies(HPD_STORM_REENABLE_DELAY) < tick_slack
    /\ jiffies' = jiffies + 1
    /\ UNCHANGED << platform_vars, hotplug_vars, sched_vars, local_vars,
                    event_hits, log_vars, map_vars >>

TickToTimer ==
    /\ reenable_timer > jiffies
    /\ reenable_timer <= MaxJiffies
    /\ jiffies' = reenable_timer
    /\ UNCHANGED << platform_vars, hotplug_vars, sched_vars, local_vars,
                    event_hits, log_vars, map_vars >>

(***************************************************************************)
(* Queries of the pin/port mapping: the port's pin and that pin's port,    *)
(* the pin's port and that port's pin.                                     *)
(***************************************************************************)
MapPortQuery(port) ==
    /\ map_port' =
           [ port |-> port,
             pin |-> intel_hpd_pin_default(is_cnl_with_port_f, port),
             back |-> intel_hpd_pin_to_port(is_cnl_with_port_f,
                          intel_hpd_pin_default(is_cnl_with_port_f, port)) ]
    /\ UNCHANGED << platform_vars, hotplug_vars, jiffies, sched_vars,
                    local_vars, event_hits, log_vars, map_pin >>

MapPinQuery(pin) ==
    /\ map_pin' =
           [ pin |-> pin,
             port |-> intel_hpd_pin_to_port(is_cnl_with_port_f, pin),
             back |-> intel_hpd_pin_default(is_cnl_with_port_f,
                          intel_hpd_pin_to_port(is_cnl_with_port_f, pin)) ]
    /\ UNCHANGED << platform_vars, hotplug_vars, jiffies, sched_vars,
                    local_vars, event_hits, log_vars, map_port >>

(***************************************************************************)
(* Initial states.  The device has been through intel_hpd_init and         *)
(* i915_hpd_poll_init_work: every pin is enabled with a count of zero and  *)
(* every connector polls as the work left it.                              *)
(***************************************************************************)
InitStats ==
    [ i \in HpdPins |->
        [ last_jiffies |-> 0, count |-> 0, state |-> HPD_ENABLED ] ]

InitDevice ==
    /\ irq_port = DigitalPorts
    /\ event_bits = {}
    /\ long_port_mask = {}
    /\ short_port_mask = {}
    /\ poll_enabled = FALSE
    /\ polled = poll_init_polled(FALSE)
    /\ jiffies = 0
    /\ irq_lock = "free"
    /\ mode_config_mutex = "free"
    /\ pending = [ w \in Works |-> FALSE ]
    /\ canceling = [ w \in Works |-> FALSE ]
    /\ reenable_timer = -1
    /\ pc = [ t \in Contexts |-> "idle" ]
    /\ irq = IrqIdle
    /\ dig = DigIdle
    /\ hp = HpIdle
    /\ re = ReIdle
    /\ adm = AdmIdle
    /\ event_hits = ZeroPins
    /\ pulse_log = << >>
    /\ call_log = << >>
    /\ call_disabled = {}
    /\ map_port = [ port |-> "none", pin |-> "none", back |-> "none" ]
    /\ map_pin = [ pin |-> "none", port |-> "none", back |-> "none" ]

\* the storm thresholds of the modelled devices: detection off, and on
Thresholds == { 0, 15 }

Init ==
    /\ is_cnl_with_port_f = FALSE
    /\ has_hotplug = TRUE
    /\ display_irqs_enabled \in BOOLEAN
    /\ hpd_storm_threshold \in Thresholds
    /\ hpd_short_storm_enabled = FALSE
    /\ logging = FALSE
    /\ irq_budget = MaxIrqs
    /\ adm_budget = 0
    /\ tick_slack = Slack
    /\ stats = InitStats
    /\ InitDevice

Irq == \E pin_mask \in SUBSET IrqPins : \E long_mask \in SUBSET pin_mask :
           IrqHandler(pin_mask, long_mask)

DigPulseRet == \E none \in SUBSET Ports : DigPulse(none)

AdmDisable == \E pin \in IrqPins : AdmDisableBody(pin)

AdmEnable == \E pin \in IrqPins : AdmEnableBody(pin)

MapPort == \E port \in Ports \cup { PORT_NONE } : MapPortQuery(port)

MapPin == \E pin \in HpdPins \cup { HPD_NONE } : MapPinQuery(pin)

(***************************************************************************)
(* The interrupt path: the dispatcher, the two processors it feeds and the *)
(* re-enable work, against each other and against time.                    *)
(***************************************************************************)
Next ==
    \/ Irq \/ IrqExit
    \/ DigDrain \/ DigPulseRet \/ DigDone \/ DigMerge \/ DigExit
    \/ HpStart \/ HpDrain \/ HpDetect \/ HpExit
    \/ ReTimer \/ ReStart \/ ReBody \/ ReExit
    \/ Tick \/ TickToTimer

Spec == Init /\ [][Next]_vars

(***************************************************************************)
(* The whole driver: the interrupt path and the administrative calls.      *)
(***************************************************************************)
NextDriver ==
    \/ Irq \/ IrqExit
    \/ DigDrain \/ DigPulseRet \/ DigDone \/ DigMerge \/ DigExit
    \/ HpStart \/ HpDrain \/ HpDetect \/ HpExit
    \/ ReTimer \/ ReStart \/ ReBody \/ ReExit
    \/ PiBody \/ PiExit
    \/ AdmInit \/ AdmInitSetup \/ AdmUnlock \/ AdmPollInit
    \/ AdmCancelClear \/ AdmCancelUnlock \/ AdmCancelGrab \/ AdmCancelWait
    \/ AdmDisableNone \/ AdmDisable
    \/ AdmEnableNone \/ AdmEnable
    \/ Tick \/ TickToTimer

InitDriver ==
    /\ is_cnl_with_port_f = FALSE
    /\ has_hotplug = TRUE
    /\ display_irqs_enabled \in BOOLEAN
    /\ hpd_storm_threshold \in Thresholds
    /\ hpd_short_storm_enabled = FALSE
    /\ logging = FALSE
    /\ irq_budget = MaxIrqs
    /\ adm_budget = MaxCalls
    /\ tick_slack = Slack
    /\ stats = InitStats
    /\ InitDevice

SpecDriver == InitDriver /\ [][NextDriver]_vars

(***************************************************************************)
(* The dispatcher and the digital-port work on their own: pulses of both   *)
(* kinds pile up in the port masks between the runs of the work.           *)
(***************************************************************************)
NextDig ==
    \/ Irq \/ IrqExit
    \/ DigDrain \/ DigPulseRet \/ DigDone \/ DigMerge \/ DigExit

SpecDig == Init /\ [][NextDig]_vars

(***************************************************************************)
(* Teardown: intel_hpd_cancel_work against the interrupt path and the      *)
(* poll-init work.  The threshold is one that a single long pulse exceeds, *)
(* so that the re-enable timer gets armed; time passes only by running up  *)
(* to that timer.                                                          *)
(***************************************************************************)
InitCancel ==
    /\ is_cnl_with_port_f = FALSE
    /\ has_hotplug = TRUE
    /\ display_irqs_enabled = TRUE
    /\ hpd_storm_threshold = 5
    /\ hpd_short_storm_enabled = FALSE
    /\ logging = FALSE
    /\ irq_budget = MaxCancelIrqs
    /\ adm_budget = MaxCancelCalls
    /\ tick_slack = 0
    /\ stats = InitStats
    /\ InitDevice

\* a long pulse on one pin
IrqLong == \E pin \in IrqPins : IrqHandler({ pin }, { pin })

NextCancel ==
    \/ IrqLong \/ IrqExit
    \/ DigDrain \/ DigPulseRet \/ DigDone \/ DigMerge \/ DigExit
    \/ HpStart \/ HpDrain \/ HpDetect \/ HpExit
    \/ ReTimer \/ ReStart \/ ReBody \/ ReExit
    \/ PiBody \/ PiExit
    \/ AdmPollInit
    \/ AdmCancelClear \/ AdmCancelUnlock \/ AdmCancelGrab \/ AdmCancelWait
    \/ TickToTimer

SpecCancel == InitCancel /\ [][NextCancel]_vars

\* the workqueue runs every queued item, a context that can take a step
\* takes it, and the caller of intel_hpd_cancel_work keeps running
CancelFairness ==
    /\ WF_vars(IrqExit)
    /\ WF_vars(DigDrain) /\ WF_vars(DigPulseRet) /\ WF_vars(DigDone)
    /\ WF_vars(DigMerge) /\ WF_vars(DigExit)
    /\ WF_vars(HpStart) /\ WF_vars(HpDrain) /\ WF_vars(HpDetect)
    /\ WF_vars(HpExit)
    /\ WF_vars(ReStart) /\ WF_vars(ReBody) /\ WF_vars(ReExit)
    /\ WF_vars(PiBody) /\ WF_vars(PiExit)
    /\ WF_vars(AdmCancelUnlock) /\ WF_vars(AdmCancelGrab)
    /\ WF_vars(AdmCancelWait)

SpecCancelFair == SpecCancel /\ CancelFairness

(***************************************************************************)
(* Pin control and re-initialisation against the interrupt path:           *)
(* intel_hpd_init, intel_hpd_disable and intel_hpd_enable while interrupts *)
(* arrive and the works run.                                               *)
(***************************************************************************)
NextAdmin ==
    \/ IrqLong \/ IrqExit
    \/ DigDrain \/ DigPulseRet \/ DigDone \/ DigMerge \/ DigExit
    \/ HpStart \/ HpDrain \/ HpDetect \/ HpExit
    \/ ReTimer \/ ReStart \/ ReBody \/ ReExit
    \/ PiBody \/ PiExit
    \/ AdmInit \/ AdmInitSetup \/ AdmUnlock
    \/ AdmDisableNone \/ AdmDisable
    \/ AdmEnableNone \/ AdmEnable
    \/ TickToTimer

SpecAdmin == InitCancel /\ [][NextAdmin]_vars

(***************************************************************************)
(* Polling set-up against the storm fallback: intel_hpd_init and           *)
(* intel_hpd_poll_init queue the poll-init work while interrupts arrive    *)
(* and the hotplug and re-enable works run.                                *)
(***************************************************************************)
NextPoll ==
    \/ IrqLong \/ IrqExit
    \/ DigDrain \/ DigPulseRet \/ DigDone \/ DigMerge \/ DigExit
    \/ HpStart \/ HpDrain \/ HpDetect \/ HpExit
    \/ ReTimer \/ ReStart \/ ReBody \/ ReExit
    \/ PiBody \/ PiExit
    \/ AdmInit \/ AdmInitSetup \/ AdmUnlock \/ AdmPollInit
    \/ TickToTimer

SpecPoll == InitCancel /\ [][NextPoll]_vars

(***************************************************************************)
(* The storm detector on its own: the dispatcher hands it pulses, time     *)
(* passes, and every pulse is logged.  The threshold and the short-storm   *)
(* flag are whatever i915_hpd_storm_ctl left them.                         *)
(***************************************************************************)
InitStorm ==
    /\ is_cnl_with_port_f = FALSE
    /\ has_hotplug = TRUE
    /\ display_irqs_enabled = TRUE
    /\ hpd_storm_threshold \in 0..MaxThreshold
    /\ hpd_short_storm_enabled \in BOOLEAN
    /\ logging = TRUE
    /\ irq_budget = MaxPulses
    /\ adm_budget = 0
    /\ tick_slack = StormSlack
    /\ stats = InitStats
    /\ InitDevice

NextStorm == Irq \/ IrqExit \/ Tick

SpecStorm == InitStorm /\ [][NextStorm]_vars

(***************************************************************************)
(* intel_hpd_disable and intel_hpd_enable on their own, from every state   *)
(* the pins can be in, every call logged.                                  *)
(***************************************************************************)
InitPin ==
    /\ is_cnl_with_port_f = FALSE
    /\ has_hotplug = TRUE
    /\ display_irqs_enabled = TRUE
    /\ hpd_storm_threshold = 0
    /\ hpd_short_storm_enabled = FALSE
    /\ logging = TRUE
    /\ irq_budget = 0
    /\ adm_budget = MaxCalls
    /\ tick_slack = Slack
    /\ \E s \in [ IrqPins -> PinStates ] :
           stats = [ i \in HpdPins |->
                       IF i \in IrqPins
                       THEN [ InitStats[i] EXCEPT !.state = s[i] ]
                       ELSE InitStats[i] ]
    /\ InitDevice

NextPin ==
    \/ AdmDisableNone \/ AdmDisable
    \/ AdmEnableNone \/ AdmEnable
    \/ AdmUnlock

SpecPin == InitPin /\ [][NextPin]_vars

(***************************************************************************)
(* The pin/port mapping on its own, on both platform variants.             *)
(***************************************************************************)
InitMap ==
    /\ is_cnl_with_port_f \in BOOLEAN
    /\ has_hotplug = TRUE
    /\ display_irqs_enabled = TRUE
    /\ hpd_storm_threshold = 0
    /\ hpd_short_storm_enabled = FALSE
    /\ logging = FALSE
    /\ irq_budget = 0
    /\ adm_budget = 0
    /\ tick_slack = Slack
    /\ stats = InitStats
    /\ InitDevice

NextMap == MapPort \/ MapPin

SpecMap == InitMap /\ [][NextMap]_vars

(***************************************************************************)
(* Properties.                                                             *)
(***************************************************************************)
Period == msecs_to_jiffies(HPD_STORM_DETECT_PERIOD)

\* the connectors whose encoder sits on pin
ConnectorsOn(pin) ==
    { n \in Connectors : Conn(n).has_encoder /\ Conn(n).hpd_pin = pin }

\* the pins that raise interrupts and have no digital port
NonDigitalPins == { i \in IrqPins : ~is_dig_port(i) }

DigitalPins == { i \in IrqPins : is_dig_port(i) }

\* the logged pulses of pin, oldest first
PinPulses(pin) == SelectSeq(pulse_log, LAMBDA e : e.pin = pin)

\* the pulse arrives more than one detection period after the window start
Late(e) == e.t > e.start + Period

\* the pulse opens a window that holds nothing yet
Fresh(e) == e.count = 0 \/ Late(e)

WindowStart(e) == IF Late(e) THEN e.t ELSE e.start

\* pulses m..k of L are all long (or all short) and inside the window that
\* pulse m opens
OneWindow(L, m, k, long) ==
    \A j \in m..k : L[j].long = long /\ L[j].t <= WindowStart(L[m]) + Period

Weight(e) == IF e.long THEN 10 ELSE 1

\* detection is on for the pulse
Counted(e) ==
    hpd_storm_threshold > 0 /\ (e.long \/ hpd_short_storm_enabled)

(* C1: fallback, then recovery.  For a non-digital pin P: the step of the  *)
(* dispatcher that detects a storm on P marks P, keeps its event bit clear *)
(* and has hotplug_work queued when the dispatcher leaves; the step of     *)
(* hotplug_work that finds P marked while a connector of P polls by HPD    *)
(* sets that connector to connect/disconnect polling, P to HPD_DISABLED    *)
(* and the timer of the re-enable work to the re-enable delay from now; a  *)
(* disabled P always has the re-enable work armed, queued or started; the  *)
(* step of the re-enable work that finds P disabled enables P, sets each   *)
(* connector of P to its preference (HPD when it has none) and calls the   *)
(* interrupt-mask hook once if display interrupts are enabled, and not at  *)
(* all otherwise.                                                          *)
FallbackRecoveryStep ==
    \A p \in NonDigitalPins :
        /\ (stats[p].state = HPD_ENABLED /\ stats'[p].state = HPD_MARK_DISABLED)
               => /\ pc["irq"] = "idle" /\ pc'["irq"] = "unlock"
                  /\ p \in irq'.storm
                  /\ p \notin event_bits'
                  /\ irq'.queue_hp
        /\ (pc["irq"] = "unlock" /\ pc'["irq"] = "idle" /\ p \in irq.storm)
               => pending'["hotplug_work"]
        /\ (pc["hp"] = "mutex_held" /\ pc'["hp"] = "drained"
            /\ stats[p].state = HPD_MARK_DISABLED
            /\ \E n \in ConnectorsOn(p) : polled[n] = DRM_CONNECTOR_POLL_HPD)
               => /\ stats'[p].state = HPD_DISABLED
                  /\ \A n \in ConnectorsOn(p) :
                         polled[n] = DRM_CONNECTOR_POLL_HPD
                             => polled'[n] = POLL_CONNECT_DISCONNECT
                  /\ reenable_timer' =
                         jiffies + msecs_to_jiffies(HPD_STORM_REENABLE_DELAY)
        /\ stats'[p].state = HPD_DISABLED
               => \/ reenable_timer' >= 0
                  \/ pending'["reenable_work"]
                  \/ pc'["re"] = "started"
        /\ (pc["re"] = "started" /\ pc'["re"] = "unlock"
            /\ stats[p].state = HPD_DISABLED)
               => /\ stats'[p].state = HPD_ENABLED
                  /\ \A n \in ConnectorsOn(p) :
                         polled'[n] = IF Conn(n).polled = POLL_NONE
                                      THEN DRM_CONNECTOR_POLL_HPD
                                      ELSE Conn(n).polled
                  /\ re'.setup = IF display_irqs_enabled THEN 1 ELSE 0

FallbackRecovery == [][FallbackRecoveryStep]_vars

\* the re-enable work has just brought back a stormed non-digital pin, its
\* connector polls by HPD again and the hook was called once
FallbackRecoveryReached ==
    /\ pc["re"] = "unlock"
    /\ display_irqs_enabled
    /\ "HPD_CRT" \in re.enabled
    /\ re.setup = 1
    /\ stats["HPD_CRT"].state = HPD_ENABLED
    /\ polled["VGA"] = DRM_CONNECTOR_POLL_HPD

(* C2: long-pulse threshold arithmetic.  With a threshold T > 0, when the  *)
(* pulses m..k of an enabled pin are all long and all inside the window    *)
(* that pulse m opens fresh, pulse k reports a storm exactly when          *)
(* 10 * (k - m + 1) > T, which is on pulse number ceil((T + 1) / 10) of    *)
(* the run, and a pulse that reports a storm marks the pin.                *)
LongPulseThreshold ==
    hpd_storm_threshold > 0 =>
        \A p \in IrqPins :
            LET L == PinPulses(p)
            IN  \A m \in 1..Len(L) : \A k \in m..Len(L) :
                    (Fresh(L[m]) /\ OneWindow(L, m, k, TRUE)) =>
                        /\ L[k].storm <=> 10 * (k - m + 1) > hpd_storm_threshold
                        /\ L[k].storm <=>
                               k - m + 1 = (hpd_storm_threshold + 10) \div 10
                        /\ L[k].storm <=> L[k].state_after = HPD_MARK_DISABLED

\* a storm reported on the third long pulse of a window and on none before
LongPulseThresholdReached ==
    \E p \in IrqPins :
        LET L == PinPulses(p)
        IN  /\ Len(L) = 3
            /\ hpd_storm_threshold >= 20
            /\ Fresh(L[1]) /\ OneWindow(L, 1, 3, TRUE)
            /\ ~L[1].storm /\ ~L[2].storm /\ L[3].storm
            /\ stats[p].state = HPD_MARK_DISABLED

(* C3: short-pulse threshold arithmetic.  With short-storm detection on    *)
(* and a threshold T > 0, when the pulses m..k of an enabled pin are all   *)
(* short and all inside the window that pulse m opens fresh, pulse k       *)
(* reports a storm exactly when k - m + 1 > T: T short pulses do not trip  *)
(* the detector, the pulse after them does.                                *)
ShortPulseThreshold ==
    (hpd_storm_threshold > 0 /\ hpd_short_storm_enabled) =>
        \A p \in IrqPins :
            LET L == PinPulses(p)
            IN  \A m \in 1..Len(L) : \A k \in m..Len(L) :
                    (Fresh(L[m]) /\ OneWindow(L, m, k, FALSE)) =>
                        /\ L[k].storm <=> k - m + 1 > hpd_storm_threshold
                        /\ L[k].storm <=> L[k].state_after = HPD_MARK_DISABLED

\* T short pulses without a storm, and a storm on the next one
ShortPulseThresholdReached ==
    \E p \in IrqPins :
        LET L == PinPulses(p)
        IN  /\ hpd_short_storm_enabled
            /\ hpd_storm_threshold = 2
            /\ Len(L) = 3
            /\ Fresh(L[1]) /\ OneWindow(L, 1, 3, FALSE)
            /\ ~L[1].storm /\ ~L[2].storm /\ L[3].storm

\* C3 as stated: the T-th short pulse of a fresh window reports a storm
ShortPulseThresholdAsStated ==
    (hpd_storm_threshold > 0 /\ hpd_short_storm_enabled) =>
        \A p \in IrqPins :
            LET L == PinPulses(p)
            IN  \A m \in 1..Len(L) : \A k \in m..Len(L) :
                    (/\ Fresh(L[m]) /\ OneWindow(L, m, k, FALSE)
                     /\ k - m + 1 = hpd_storm_threshold) => L[k].storm

(* C4: no accumulation across windows.  A pulse of an enabled pin that     *)
(* arrives more than one detection period after the pin's window start     *)
(* and for which detection is on leaves the window starting now and the    *)
(* count equal to its own weight; and a pulse that arrives that late       *)
(* reports a storm exactly when detection is on for it and its own weight  *)
(* exceeds the threshold.                                                  *)
NoAccumulation ==
    \A j \in 1..Len(pulse_log) :
        LET e == pulse_log[j]
        IN  Late(e) =>
                /\ Counted(e) => /\ e.start_after = e.t
                                 /\ e.count_after = Weight(e)
                /\ e.storm <=> (Counted(e) /\ Weight(e) > hpd_storm_threshold)

\* a late pulse found a count that, added to its weight, would have
\* exceeded the threshold, and reported no storm
NoAccumulationReached ==
    \E j \in 1..Len(pulse_log) :
        LET e == pulse_log[j]
        IN  /\ Late(e) /\ Counted(e)
            /\ e.count + Weight(e) > hpd_storm_threshold
            /\ ~e.storm
            /\ e.count_after = Weight(e)

(* C5: detection gating.  With a threshold of 0 no pulse reports a storm   *)
(* and no pin is marked; with the short-storm flag off a short pulse       *)
(* reports no storm and leaves count, window start and state as they       *)
(* were, while a long pulse reports a storm whenever 10 > T > 0.           *)
DetectionGating ==
    /\ hpd_storm_threshold = 0 =>
           /\ \A j \in 1..Len(pulse_log) : ~pulse_log[j].storm
           /\ \A i \in HpdPins : stats[i].state = HPD_ENABLED
    /\ ~hpd_short_storm_enabled =>
           \A j \in 1..Len(pulse_log) :
               LET e == pulse_log[j]
               IN  /\ ~e.long => /\ ~e.storm
                                 /\ e.count_after = e.count
                                 /\ e.start_after = e.start
                                 /\ e.state_after = HPD_ENABLED
                   /\ (e.long /\ hpd_storm_threshold > 0
                       /\ 10 > hpd_storm_threshold) => e.storm

\* with the flag off, short pulses that changed nothing and then one long
\* pulse that reported a storm
DetectionGatingReached ==
    \E p \in IrqPins :
        LET L == PinPulses(p)
        IN  /\ ~hpd_short_storm_enabled
            /\ hpd_storm_threshold > 0
            /\ Len(L) = 3
            /\ ~L[1].long /\ ~L[2].long /\ L[3].long
            /\ L[2].count_after = 0
            /\ L[3].storm

(* C6: coalescing.  An event bit is set exactly when interrupts were       *)
(* merged into it; when two or more interrupts of a non-digital pin were   *)
(* merged (none reporting a storm) and the dispatcher has left,            *)
(* hotplug_work is queued or has started and not yet drained the bits;     *)
(* and the run that drained them made one encoder->hotplug call for each   *)
(* connector of the pin.                                                   *)
Coalescing ==
    /\ \A i \in HpdPins : event_hits[i] > 0 <=> i \in event_bits
    /\ \A i \in NonDigitalPins :
           /\ (event_hits[i] >= 2 /\ pc["irq"] = "idle")
                  => pending["hotplug_work"] \/ pc["hp"] = "mutex_held"
           /\ (pc["hp"] = "detected" /\ hp.hits[i] >= 2)
                  => \A n \in ConnectorsOn(i) : hp.detect_calls[n] = 1

\* hotplug_work has drained a bit two interrupts were merged into and made
\* its calls
CoalescingReached ==
    /\ pc["hp"] = "detected"
    /\ hp.hits["HPD_CRT"] >= 2
    /\ hp.detect_calls["VGA"] = 1
    /\ stats["HPD_CRT"].state = HPD_ENABLED

DisableIdempotent ==
    /\ \A k \in 1..Len(call_log) :
           LET e == call_log[k]
           IN  e.op = "disable" =>
                   /\ e.ret <=> e.was = HPD_ENABLED
                   /\ (k < Len(call_log) /\ e.was = HPD_ENABLED
                       /\ call_log[k + 1].op = "disable"
                       /\ call_log[k + 1].pin = e.pin)
                          => /\ e.ret /\ e.now = HPD_DISABLED
                             /\ ~call_log[k + 1].ret
                             /\ call_log[k + 1].was = HPD_DISABLED
                             /\ call_log[k + 1].now = HPD_DISABLED
    /\ (pc["adm"] = "unlock" /\ adm.op = "disable") =>
           /\ stats[adm.pin].state = call_log[Len(call_log)].now
           /\ adm.ret = call_log[Len(call_log)].ret

\* two calls in a row on an enabled pin
DisableIdempotentReached ==
    /\ Len(call_log) >= 2
    /\ call_log[1].op = "disable" /\ call_log[2].op = "disable"
    /\ call_log[1].pin = "HPD_CRT" /\ call_log[2].pin = "HPD_CRT"
    /\ call_log[1].was = HPD_ENABLED
    /\ call_log[1].ret /\ ~call_log[2].ret
    /\ pc["adm"] = "unlock"
    /\ stats["HPD_CRT"].state = HPD_DISABLED

(* C9: intel_hpd_enable on a real pin leaves the pin HPD_ENABLED, whatever *)
(* state it was in.                                                        *)
EnableClosure ==
    /\ \A k \in 1..Len(call_log) :
           (call_log[k].op = "enable" /\ call_log[k].pin # HPD_NONE)
               => call_log[k].now = HPD_ENABLED
    /\ (pc["adm"] = "unlock" /\ adm.op = "enable") =>
           stats[adm.pin].state = HPD_ENABLED

\* the call has been made on a pin in each of the three states
EnableClosureReached ==
    /\ \A s \in PinStates :
           \E k \in 1..Len(call_log) :
               /\ call_log[k].op = "enable"
               /\ call_log[k].was = s
               /\ call_log[k].now = HPD_ENABLED
    /\ \A i \in IrqPins : stats[i].state = HPD_ENABLED

(* C10: pin/port mapping round trip.  Without the Cannonlake port F        *)
(* pairing, the port of the pin of a port that has a pin is that port, and *)
(* the pin of the port of a pin that has a port is that pin.  With the     *)
(* pairing the same holds for every port but PORT_E and every pin but      *)
(* HPD_PORT_F: PORT_E and PORT_F both have pin HPD_PORT_E, whose port is   *)
(* PORT_F, and HPD_PORT_E and HPD_PORT_F both have port PORT_F, whose pin  *)
(* is HPD_PORT_E.                                                          *)
MappingRoundTrip ==
    /\ (map_port.port \in Ports /\ map_port.pin # HPD_NONE
        /\ ~(is_cnl_with_port_f /\ map_port.port = "PORT_E"))
           => map_port.back = map_port.port
    /\ (map_pin.pin \in HpdPins /\ map_pin.port # PORT_NONE
        /\ ~(is_cnl_with_port_f /\ map_pin.pin = "HPD_PORT_F"))
           => map_pin.back = map_pin.pin
    /\ (is_cnl_with_port_f /\ map_port.port \in { "PORT_E", "PORT_F" })
           => map_port.pin = "HPD_PORT_E" /\ map_port.back = "PORT_F"
    /\ (is_cnl_with_port_f /\ map_pin.pin \in { "HPD_PORT_E", "HPD_PORT_F" })
           => map_pin.port = "PORT_F" /\ map_pin.back = "HPD_PORT_E"

\* with the pairing, PORT_F has come back as itself and HPD_PORT_F as
\* HPD_PORT_E
MappingRoundTripReached ==
    /\ is_cnl_with_port_f
    /\ map_port.port = "PORT_F" /\ map_port.back = "PORT_F"
    /\ map_pin.pin = "HPD_PORT_F" /\ map_pin.back = "HPD_PORT_E"

\* C10 as stated: the round trip on every platform variant
MappingRoundTripAsStated ==
    /\ (map_port.port \in Ports /\ map_port.pin # HPD_NONE)
           => map_port.back = map_port.port
    /\ (map_pin.pin \in HpdPins /\ map_pin.port # PORT_NONE)
           => map_pin.back = map_pin.pin

(***************************************************************************)
(* C11.  Cancellation: intel_hpd_cancel_work never waits for a work item   *)
(* while it holds irq_lock, and so it returns even when an item is in the  *)
(* middle of its run and needs the lock; and when no interrupt arrives     *)
(* during or after the call, none of the four work items is pending or     *)
(* running once it has returned, and none becomes so afterwards.           *)
(***************************************************************************)
Quiet ==
    /\ \A w \in Works : ~pending[w]
    /\ \A w \in Works : pc[WorkContext(w)] = "idle"
    /\ reenable_timer = -1
    /\ pc["irq"] = "idle"

CancelReturns == pc["adm"] = "cancel_wait" /\ pc'["adm"] = "idle"

CancellationStep ==
    /\ pc'["adm"] \in { "cancel_grab", "cancel_wait" } => irq_lock' # "adm"
    /\ CancelReturns /\ adm.irqs = irq_budget => Quiet'
    /\ (/\ Quiet
        /\ pc["adm"] = "idle"
        /\ irq_budget' = irq_budget
        /\ adm_budget' = adm_budget) => Quiet'

TakesIrqLock(c) == irq_lock # c /\ irq_lock' = c

TakesMutex(c) == mode_config_mutex # c /\ mode_config_mutex' = c

LockOrderingStep ==
    /\ \A c \in Contexts : TakesMutex(c) => irq_lock # c /\ irq_lock' # c
    /\ TakesIrqLock("hp") => mode_config_mutex = "hp" /\ ~TakesMutex("hp")
    /\ pc["hp"] = "drained" /\ pc'["hp"] = "detected" =>
           irq_lock' # "hp" /\ mode_config_mutex' = "hp"

LockOrdering == [][LockOrderingStep]_vars

\* the hotplug work holds both locks, another work waits for the mutex
LockOrderingReached ==
    /\ irq_lock = "hp"
    /\ mode_config_mutex = "hp"
    /\ pending["poll_init_work"]

\* C12 as stated: the hotplug work never holds mode_config.mutex at the
\* moment it takes irq_lock
LockOrderingAsStated ==
    [][TakesIrqLock("hp") => mode_config_mutex # "hp"]_vars

(***************************************************************************)
(* C13.  Lock-protected state: every step that writes a pin's stats        *)
(* (last_jiffies, count, state) is a step of a context that takes irq_lock *)
(* for the write and holds it when the write is done.                      *)
(***************************************************************************)
StatsWriteLocked ==
    [][stats' # stats => irq_lock = "free" /\ irq_lock' \in Contexts]_vars

(***************************************************************************)
(* C14.  Window boundary, as the code has it: the detection window is      *)
(* closed, [last_jiffies, last_jiffies + period].  A counted pulse at      *)
(* exactly last_jiffies + period is inside it: the window start stays and  *)
(* the pulse's weight is added to the count.  The first pulse outside is   *)
(* the one at last_jiffies + period + 1, which resets the window start to  *)
(* now and the count to 0 before its weight is added.                      *)
(***************************************************************************)
OnBoundary(e) == e.t = e.start + Period

WindowBoundary ==
    \A j \in 1..Len(pulse_log) :
        LET e == pulse_log[j]
        IN  /\ Counted(e) /\ OnBoundary(e) =>
                /\ e.start_after = e.start
                /\ e.count_after = e.count + Weight(e)
            /\ Counted(e) /\ e.t = e.start + Period + 1 =>
                /\ e.start_after = e.t
                /\ e.count_after = Weight(e)

\* a pulse on the boundary was added to a count that was not 0
WindowBoundaryReached ==
    \E j \in 1..Len(pulse_log) :
        LET e == pulse_log[j]
        IN  /\ Counted(e) /\ OnBoundary(e)
            /\ e.count > 0
            /\ e.count_after = e.count + Weight(e)

\* C14 as stated: a pulse at exactly last_jiffies + period resets the window
WindowBoundaryAsStated ==
    \A j \in 1..Len(pulse_log) :
        LET e == pulse_log[j]
        IN  Counted(e) /\ OnBoundary(e) =>
                /\ e.start_after = e.t
                /\ e.count_after = Weight(e)

(***************************************************************************)
(* C15.  Delivery, as the code has it: a bit of event_bits is removed only *)
(* by the hotplug work draining the mask, or by the dispatcher when a      *)
(* later interrupt on that same pin trips the storm detector (the pin is   *)
(* then marked and left to polling).  While a bit is set the hotplug work  *)
(* is queued or about to be, and the work calls encoder->hotplug for       *)
(* every connector of every pin it drained.  An interrupt that trips no    *)
(* storm only merges with the bits that are set.                           *)
(***************************************************************************)
HpDrains == pc["hp"] = "mutex_held" /\ pc'["hp"] = "drained"

IrqRuns == pc["irq"] = "idle" /\ pc'["irq"] = "unlock"

DeliveryStep ==
    \A i \in IrqPins :
        /\ i \in event_bits /\ i \notin event_bits' =>
               \/ HpDrains /\ i \in hp'.hpd_event_bits
               \/ IrqRuns /\ i \in irq'.storm
        /\ i \in event_bits' =>
               \/ pending'["hotplug_work"]
               \/ pc'["irq"] = "unlock" /\ irq'.queue_hp
               \/ pc'["dig"] = "merged"
               \/ pc'["hp"] = "mutex_held"
        /\ pc["hp"] = "drained" /\ pc'["hp"] = "detected"
               /\ i \in hp.hpd_event_bits =>
               \A n \in ConnectorsOn(i) : hp'.detect_calls[n] >= 1

Delivery == [][DeliveryStep]_vars

\* the hotplug work has called encoder->hotplug for a bit that a second
\* interrupt had merged into
DeliveryReached ==
    /\ pc["hp"] = "detected"
    /\ \E i \in NonDigitalPins :
           /\ i \in hp.hpd_event_bits
           /\ hp.hits[i] > 1
           /\ \A n \in ConnectorsOn(i) : hp.detect_calls[n] >= 1

\* C15 as stated: the bit of a non-digital pin stays set until the hotplug
\* work drains it
DeliveryAsStated ==
    [][\A i \in NonDigitalPins :
           i \in event_bits /\ i \notin event_bits' =>
               HpDrains /\ i \in hp'.hpd_event_bits]_vars

(***************************************************************************)
(* C16.  Polling fallback completeness: when the switch to polling inside  *)
(* the hotplug work is done no pin is left HPD_MARK_DISABLED; every pin    *)
(* that was marked is HPD_DISABLED and every connector on such a pin polls *)
(* for connect and disconnect.                                             *)
(***************************************************************************)
FallbackComplete ==
    [][HpDrains =>
         \A i \in IrqPins :
             /\ stats'[i].state # HPD_MARK_DISABLED
             /\ stats[i].state = HPD_MARK_DISABLED =>
                    /\ stats'[i].state = HPD_DISABLED
                    /\ \A n \in ConnectorsOn(i) :
                           polled'[n] = POLL_CONNECT_DISCONNECT]_vars

(***************************************************************************)
(* C17.  Quiet period after a storm: a switch to polling that disables a   *)
(* pin re-arms the one re-enable timer to now + the fixed delay, whatever  *)
(* it was before, and the re-enable work does not set a pin back to        *)
(* HPD_ENABLED while a deadline set by such a pass still lies ahead, that  *)
(* is, earlier than the fixed delay after the pass.                        *)
(***************************************************************************)
ReEnables(i) ==
    /\ pc["re"] = "started" /\ pc'["re"] = "unlock"
    /\ stats[i].state = HPD_DISABLED /\ stats'[i].state = HPD_ENABLED

QuietPeriodStep ==
    /\ HpDrains /\ hp'.switched =>
           /\ reenable_timer' = jiffies + msecs_to_jiffies(HPD_STORM_REENABLE_DELAY)
           /\ ~pending'["reenable_work"]
    /\ \A i \in IrqPins : ReEnables(i) => ~(reenable_timer > jiffies)

QuietPeriod == [][QuietPeriodStep]_vars

(***************************************************************************)
(* C18.  Interrupt-mask hook per dispatch: one call of the dispatcher      *)
(* calls hpd_irq_setup once if the call marked at least one pin as         *)
(* storming and display interrupts are enabled, and not at all otherwise,  *)
(* however many pins it marked; at the call every pin of the interrupt has *)
(* been classified and irq_lock is held, and the lock is dropped only      *)
(* after it.                                                               *)
(***************************************************************************)
Stormed ==
    { i \in IrqPins : /\ stats[i].state = HPD_ENABLED
                      /\ stats'[i].state = HPD_MARK_DISABLED }

HookPerDispatchStep ==
    /\ IrqRuns =>
           /\ irq'.setup = IF Stormed # {} /\ display_irqs_enabled THEN 1
                                                                    ELSE 0
           /\ irq'.storm = Stormed
           /\ irq_lock' = "irq"
    /\ pc["irq"] = "unlock" =>
           /\ irq_lock = "irq"
           /\ irq'.setup \in { irq.setup, 0 }
           /\ stats' = stats

HookPerDispatch == [][HookPerDispatchStep]_vars

\* two pins stormed in one call and the hook was called once
HookPerDispatchReached ==
    /\ pc["irq"] = "unlock"
    /\ irq_lock = "irq"
    /\ Cardinality(irq.storm) > 1
    /\ irq.setup = 1

(***************************************************************************)
(* C19.  Re-enable scope: a pin that intel_hpd_disable has set to          *)
(* HPD_DISABLED stays HPD_DISABLED until intel_hpd_enable or               *)
(* intel_hpd_init; the re-enable work enables only the pins that the       *)
(* switch to polling disabled.                                             *)
(***************************************************************************)
ReEnableScope == \A i \in call_disabled : stats[i].state = HPD_DISABLED

(***************************************************************************)
(* C20.  Explicit disable transition, as the code has it:                  *)
(* intel_hpd_disable on a pin that is HPD_ENABLED or HPD_DISABLED leaves   *)
(* the pin HPD_DISABLED when it returns; on a pin that is                  *)
(* HPD_MARK_DISABLED it changes nothing, returns false and leaves the pin  *)
(* HPD_MARK_DISABLED.                                                      *)
(***************************************************************************)
DisableCalls ==
    { k \in 1..Len(call_log) :
        call_log[k].op = "disable" /\ call_log[k].pin # HPD_NONE }

DisableTransition ==
    /\ \A k \in DisableCalls :
           LET e == call_log[k]
           IN  /\ e.was \in { HPD_ENABLED, HPD_DISABLED }
                      => e.now = HPD_DISABLED
               /\ e.was = HPD_MARK_DISABLED
                      => e.now = HPD_MARK_DISABLED /\ ~e.ret
    /\ pc["adm"] = "unlock" /\ adm.op = "disable" =>
           stats[adm.pin].state = call_log[Len(call_log)].now

\* a call on a marked pin is about to return, the pin still marked
DisableTransitionReached ==
    /\ pc["adm"] = "unlock" /\ adm.op = "disable"
    /\ call_log[Len(call_log)].was = HPD_MARK_DISABLED
    /\ stats[adm.pin].state = HPD_MARK_DISABLED

\* C20 as stated: every call leaves the pin HPD_DISABLED
DisableTransitionAsStated ==
    \A k \in DisableCalls : call_log[k].now = HPD_DISABLED

(***************************************************************************)
(* C21.  Digital-port drain, as the code has it: one run of the work reads *)
(* and zeroes both port masks in one critical section and then makes at    *)
(* most one hpd_pulse call per port that has a handler: a long one if the  *)
(* port's long bit was set, a short one only if its short bit was set and  *)
(* its long bit was not.  A short pulse recorded next to a long one of the *)
(* same port gets no call of its own.                                      *)
(***************************************************************************)
DigPulsesDone == pc["dig"] \in { "pulsed", "merged" }

DigitalDrain ==
    /\ pc["dig"] = "drained" =>
           /\ irq_lock = "dig"
           /\ long_port_mask = {} /\ short_port_mask = {}
    /\ DigPulsesDone =>
           \A port \in Ports :
               /\ << port, TRUE >> \in dig.pulses <=>
                      port \in irq_port /\ port \in dig.long_port_mask
               /\ << port, FALSE >> \in dig.pulses <=>
                      /\ port \in irq_port
                      /\ port \in dig.short_port_mask
                      /\ port \notin dig.long_port_mask

\* a port had both bits set when the work drained, and got the long call
DigitalDrainReached ==
    /\ DigPulsesDone
    /\ \E port \in DigitalPorts :
           /\ port \in dig.long_port_mask /\ port \in dig.short_port_mask
           /\ dig.pulses = { << port, TRUE >> }

\* C21 as stated: every port gets a call for every kind of pulse pending
DigitalDrainAsStated ==
    DigPulsesDone =>
        \A port \in Ports :
            port \in irq_port =>
                /\ port \in dig.long_port_mask =>
                       << port, TRUE >> \in dig.pulses
                /\ port \in dig.short_port_mask =>
                       << port, FALSE >> \in dig.pulses

(***************************************************************************)
(* C22.  Detection coverage while storm-disabled: a connector that the     *)
(* switch to polling has put on connect/disconnect polling stays on it for *)
(* as long as its pin stays HPD_DISABLED.                                  *)
(***************************************************************************)
PollingKept ==
    [][\A i \in IrqPins : \A n \in ConnectorsOn(i) :
           (/\ stats[i].state = HPD_DISABLED
            /\ stats'[i].state = HPD_DISABLED
            /\ polled[n] = POLL_CONNECT_DISCONNECT)
               => polled'[n] = POLL_CONNECT_DISCONNECT]_vars

=============================================================================
